---- MODULE Spec2Model ----
(***************************************************************************)
(* PortugolExecutor (packages/runner/src/PortugolExecutor.ts): the         *)
(* orchestrator that parses, checks and transpiles a program, launches a   *)
(* runner for it, forwards the runner's streams to its own public streams  *)
(* and emulates a line-edited terminal input.                              *)
(*                                                                         *)
(* Text is a sequence of units.  A unit is one typed character, one        *)
(* newline, one runner output character, or one fixed text of the source   *)
(* (a banner, a message line) taken as a whole.                            *)
(***************************************************************************)
EXTENDS Integers, Sequences, FiniteSets, TLC

VARIABLES
    stdInBuffer,      \* line 34: keystrokes not yet committed
    stdOut,           \* line 37: the transcript
    waitingForInput,  \* line 41
    running,          \* line 45
    _runner,          \* line 10: 0 is undefined, else the index of a runner in runners
    runners,          \* every runner constructed so far, in construction order:
                      \*   wired     the streams of the runner on which a handler of
                      \*             the orchestrator is subscribed
                      \*   destroyed how often destroy() was invoked on it (2: twice or more)
    last,             \* the operation that produced this state and what it did, in order
    line              \* the keystrokes of the input line being typed, when recorded

vars == <<stdInBuffer, stdOut, waitingForInput, running, _runner, runners, last, line>>

----------------------------------------------------------------------------
(* Bounds *)

MaxRunners == 2     \* runners constructed in one behaviour
MaxOut == 2         \* transcript length up to which keystrokes and runner values append
MaxBuf == 2         \* input buffer length up to which characters are typed
MaxKeys == 3        \* keystrokes of one input line that are recorded

----------------------------------------------------------------------------
(* Values *)

BS == "\\b"
CR == "\\r"
NL == "\\n"
Chars == {"5", "6"}
Keys == Chars \cup {BS, CR}

Links == {"stdOut", "waitingForInput", "running", "events"}

\* Program texts, as the words they contain.
Plain == <<"programa", "se">>
Algol == <<"programa", "se", "fimse">>
Codes == {Plain, Algol}

\* PortugolCodeError values (message, startLine, startCol).
D1 == [message |-> "a", startLine |-> 1, startCol |-> 2]
D2 == [message |-> "b", startLine |-> 3, startCol |-> 4]

\* What the parser, the checker and the generator may do with a program:
\* raise or return, the parser reporting syntax errors to the listener either way.
ParseOutcomes == [raises : BOOLEAN, reported : {<<>>, <<D1>>}]
CheckOutcomes == [raises : {FALSE}, returns : {<<>>, <<D1>>, <<D1, D2>>}]
                     \cup {[raises |-> TRUE, returns |-> <<>>]}
GenOutcomes == {[raises |-> FALSE, returns |-> "js"], [raises |-> TRUE, returns |-> ""]}

\* The six readings of performance.now() in one run(), in call order: a
\* monotonic clock that advances by step between two readings.
Ticks == {0, 1}
clock(step) == [i \in 1..6 |-> i * step]

\* What the collaborators do during one run(code); a step that is not reached
\* has no outcome to vary.
Pipelines ==
    {p \in [code : Codes, parse : ParseOutcomes, check : CheckOutcomes,
            gen : GenOutcomes, tick : Ticks] :
        /\ p.parse.raises => p.check = [raises |-> TRUE, returns |-> <<>>]
        /\ p.check.raises => p.gen = [raises |-> TRUE, returns |-> ""]}

\* The runs in which the parser, the checker and the generator all return,
\* one for each way runTranspiled treats a bundle: syntax errors, no error, and
\* one or two checker errors in a program with or without an Algol keyword.
Programs ==
    {p \in Pipelines :
        /\ ~p.parse.raises /\ ~p.check.raises /\ ~p.gen.raises /\ p.tick = 0
        /\ p.check.returns = <<>> => p.code = Plain
        /\ p.parse.reported # <<>> => p.check.returns = <<>>}

\* What the runner class and the runners do during one runTranspiled(bundle):
\* destroy() raising in the first reset, the constructor raising, run() raising,
\* destroy() raising in the reset of the catch block.
Environments == [destroy1 : BOOLEAN, newRaises : BOOLEAN, runRaises : BOOLEAN,
                 destroy2 : BOOLEAN]

Calm == [destroy1 |-> FALSE, newRaises |-> FALSE, runRaises |-> FALSE, destroy2 |-> FALSE]

\* Output chunks of a runner and the lifecycle events of IPortugolRunner.
Chunks == {<<"o">>}
Events == {[type |-> "finish", time |-> 7], [type |-> "clear"],
           [type |-> "error", error |-> [message |-> "e"]], [type |-> "other"]}

Min(a, b) == IF a < b THEN a ELSE b

\* F(e), with e evaluated once.
bind(e, F(_)) == CHOOSE y \in {F(x) : x \in {e}} : TRUE

\* String.prototype.slice(0, -1)
slice(s) == IF Len(s) = 0 THEN s ELSE SubSeq(s, 1, Len(s) - 1)

----------------------------------------------------------------------------
(* The mutable state of one PortugolExecutor as a record, so that the      *)
(* statements of a method compose.  log is what the method did, in order;  *)
(* raised is an exception propagating out of the statements run so far.    *)

\* Throughout, a record constructor lists its fields in the order in which
\* the names first occur in this module, the order in which values hold them.

\* What `last` records of an operation and of the state s it ended in.
Did(kind, runner, data, s) ==
    [kind |-> kind, runner |-> runner, data |-> <<data>>, log |-> s.log, raised |-> s.raised]

Cur == [stdInBuffer |-> stdInBuffer, stdOut |-> stdOut,
        waitingForInput |-> waitingForInput, running |-> running,
        _runner |-> _runner, runners |-> runners,
        log |-> <<>>, raised |-> FALSE]

\* One entry of the log: t is what happened, r the runner concerned (0: none),
\* v the value carried.
\*   "stdOut$" "waitingForInput$" "running$" "events"  a next() on that public Subject
\*   "stdIn"     a next() on runner r's stdIn
\*   "new"       runner r constructed
\*   "destroy"   destroy() invoked on runner r; v: it raised
\*   "reset"     reset(v) returned
\*   "catch"     the catch block of runTranspiled entered
note(s, t, r, v) == [s EXCEPT !.log = Append(@, [t |-> t, r |-> r, v |-> <<v>>])]

Entries(l, t) == {i \in DOMAIN l : l[i].t = t}

\* Lines 39, 43, 47: the Subscription fields _stdOut$, _waitingForInput$ and
\* _running$ are declared without an initialiser and no statement of the class
\* assigns them, so in every state they hold no subscription.
heldSubscriptions == {}

\* Subscription.unsubscribe() on the held handles (lines 238, 241, 244).
unsubscribe(s) ==
    [s EXCEPT !.runners =
        [i \in DOMAIN s.runners |->
            [s.runners[i] EXCEPT !.wired = @ \ {k \in Links : <<i, k>> \in heldSubscriptions}]]]

\* this._runner?.destroy() (line 246); destroyRaises: destroy() throws.
destroy(s, destroyRaises) ==
    IF s._runner = 0 THEN s
    ELSE [s EXCEPT !.runners[s._runner].destroyed = Min(@ + 1, 2),
                   !.log = Append(@, [t |-> "destroy", r |-> s._runner, v |-> <<destroyRaises>>]),
                   !.raised = destroyRaises]

\* reset(clearStdOut) (lines 233-247).
reset(s, clearStdOut, destroyRaises) ==
    bind(destroy([unsubscribe(s) EXCEPT !.stdOut = IF clearStdOut THEN <<>> ELSE @,
                                        !.waitingForInput = FALSE,
                                        !.running = FALSE],
                 destroyRaises),
         LAMBDA d : IF d.raised THEN d ELSE note(d, "reset", 0, clearStdOut))

\* stdInHandler, had the carriage return left stdInBuffer as it was.
stdInHandlerKeepLine(s, data) ==
    bind(IF data = BS
         THEN IF Len(s.stdInBuffer) > 0
              THEN [s EXCEPT !.stdInBuffer = slice(@), !.stdOut = slice(@)]
              ELSE s
         ELSE IF data = CR
         THEN [s EXCEPT !.log = IF s._runner = 0 THEN @
                                ELSE Append(@, [t |-> "stdIn", r |-> s._runner,
                                                v |-> <<s.stdInBuffer>>]),
                        !.stdOut = @ \o <<NL>>]
         ELSE [s EXCEPT !.stdInBuffer = @ \o <<data>>, !.stdOut = @ \o <<data>>],
         LAMBDA s1 : note(s1, "stdOut$", 0, s1.stdOut))

\* stdInHandler, had backspace shortened stdOut without looking at stdInBuffer.
stdInHandlerEraseAlways(s, data) ==
    bind(IF data = BS
         THEN [s EXCEPT !.stdInBuffer = slice(@), !.stdOut = slice(@)]
         ELSE IF data = CR
         THEN [s EXCEPT !.log = IF s._runner = 0 THEN @
                                ELSE Append(@, [t |-> "stdIn", r |-> s._runner,
                                                v |-> <<s.stdInBuffer>>]),
                        !.stdInBuffer = <<>>,
                        !.stdOut = @ \o <<NL>>]
         ELSE [s EXCEPT !.stdInBuffer = @ \o <<data>>, !.stdOut = @ \o <<data>>],
         LAMBDA s1 : note(s1, "stdOut$", 0, s1.stdOut))

\* stdInHandler, had backspace shortened the transcript only.
stdInHandlerEchoOnly(s, data) ==
    bind(IF data = BS
         THEN IF Len(s.stdInBuffer) > 0 THEN [s EXCEPT !.stdOut = slice(@)] ELSE s
         ELSE IF data = CR
         THEN [s EXCEPT !.log = IF s._runner = 0 THEN @
                                ELSE Append(@, [t |-> "stdIn", r |-> s._runner,
                                                v |-> <<s.stdInBuffer>>]),
                        !.stdInBuffer = <<>>,
                        !.stdOut = @ \o <<NL>>]
         ELSE [s EXCEPT !.stdInBuffer = @ \o <<data>>, !.stdOut = @ \o <<data>>],
         LAMBDA s1 : note(s1, "stdOut$", 0, s1.stdOut))

\* The handler subscribed on this.stdIn by the constructor (lines 13-29).
stdInHandler(s, data) ==
    bind(IF data = BS
         THEN IF Len(s.stdInBuffer) > 0
              THEN [s EXCEPT !.stdInBuffer = slice(@), !.stdOut = slice(@)]
              ELSE s
         ELSE IF data = CR
         THEN [s EXCEPT !.log = IF s._runner = 0 THEN @
                                ELSE Append(@, [t |-> "stdIn", r |-> s._runner,
                                                v |-> <<s.stdInBuffer>>]),
                        !.stdInBuffer = <<>>,
                        !.stdOut = @ \o <<NL>>]
         ELSE [s EXCEPT !.stdInBuffer = @ \o <<data>>, !.stdOut = @ \o <<data>>],
         LAMBDA s1 : note(s1, "stdOut$", 0, s1.stdOut))

----------------------------------------------------------------------------
(* run(code): the pipeline (lines 52-99) *)

\* pipeline, had errors and js been assigned only once the whole try block was through.
pipelineAllOrNothing(code, parse, check, gen, t) ==
    LET done == ~parse.raises /\ ~check.raises /\ ~gen.raises
    IN  [code |-> code,
         js |-> IF done THEN gen.returns ELSE "",
         errors |-> IF done THEN check.returns ELSE <<>>,
         parseErrors |-> parse.reported,
         times |-> [parse |-> (IF ~parse.raises THEN t[2] ELSE 0) - t[1],
                    check |-> IF parse.raises THEN 0
                              ELSE (IF ~check.raises THEN t[4] ELSE 0) - t[3],
                    transpile |-> IF parse.raises \/ check.raises THEN 0
                                  ELSE (IF ~gen.raises THEN t[6] ELSE 0) - t[5]]]

\* The statements of the try block of run() in order, which a raise leaves;
\* t are the clock readings.  The result is the argument of runTranspiled.
pipeline(code, parse, check, gen, t) ==
    LET parsed == ~parse.raises
        checked == parsed /\ ~check.raises
        generated == checked /\ ~gen.raises
        parseStart == t[1]
        parseEnd == IF parsed THEN t[2] ELSE 0
        checkStart == IF parsed THEN t[3] ELSE 0
        errors == IF checked THEN check.returns ELSE <<>>
        checkEnd == IF checked THEN t[4] ELSE 0
        transpileStart == IF checked THEN t[5] ELSE 0
        js == IF generated THEN gen.returns ELSE ""
        transpileEnd == IF generated THEN t[6] ELSE 0
    IN  [code |-> code, js |-> js, errors |-> errors,
         parseErrors |-> parse.reported,
         times |-> [parse |-> parseEnd - parseStart,
                    check |-> checkEnd - checkStart,
                    transpile |-> transpileEnd - transpileStart]]

\* The bundles one run(code) hands to runTranspiled, in order (line 88, after
\* the try/catch of lines 62-86).
handed(code, parse, check, gen, t) == <<pipeline(code, parse, check, gen, t)>>

----------------------------------------------------------------------------
(* runTranspiled(bundle) (lines 103-227) *)

LegacyKeywords == {"fimalgoritmo", "fimenquanto", "fimpara", "fimse", "fimfuncao"}

\* [...].some(keyword => code.includes(keyword)) (line 126)
usesAlgol(code) == \E i \in DOMAIN code : code[i] \in LegacyKeywords

AlgolBanner == <<"ATENCAO Algol">>
CountLine(n) ==
    <<"possui " \o ToString(n) \o " erro" \o (IF n > 1 THEN "s" ELSE "") \o " de compilacao:">>
ErrorLine(e) ==
    <<"- " \o e.message \o " (linha " \o ToString(e.startLine)
          \o ", posicao " \o ToString(e.startCol) \o ")">>
WarningParagraph == <<"fase experimental", "abra uma issue">>
StartMarker == <<"- O seu programa ira iniciar abaixo -">>
FailureLine == <<"possui um erro de compilacao!">>
FinishLine(time) == <<"Programa finalizado. " \o ToString(time) \o " milissegundos">>
RuntimeErrorLine(message) == <<"erro: " \o message>>

RECURSIVE ErrorLines(_)
ErrorLines(errors) ==
    IF errors = <<>> THEN <<>> ELSE ErrorLine(Head(errors)) \o ErrorLines(Tail(errors))

\* argueAboutAlgolIfNeeded (lines 124-140): the text it appends.
argueAboutAlgolIfNeeded(code) == IF usesAlgol(code) THEN AlgolBanner ELSE <<>>

\* printErrors, had argueAboutAlgolIfNeeded been called before the listing only.
printErrorsOnce(s, b) ==
    bind(s.stdOut \o argueAboutAlgolIfNeeded(b.code)
                  \o CountLine(Len(b.errors)) \o ErrorLines(b.errors)
                  \o WarningParagraph
                  \o StartMarker,
         LAMBDA out : note([s EXCEPT !.stdOut = out], "stdOut$", 0, out))

\* Lines 123-157: the listing of the checker's errors.
printErrors(s, b) ==
    bind(s.stdOut \o argueAboutAlgolIfNeeded(b.code)
                  \o CountLine(Len(b.errors)) \o ErrorLines(b.errors)
                  \o WarningParagraph
                  \o argueAboutAlgolIfNeeded(b.code)
                  \o StartMarker,
         LAMBDA out : note([s EXCEPT !.stdOut = out], "stdOut$", 0, out))

\* fatal, had the checker's errors been taken for fatal too.
fatalAny(b) == Len(b.parseErrors) > 0 \/ Len(b.errors) > 0

\* Line 119: the launch is abandoned before a runner is constructed.
fatal(b) == Len(b.parseErrors) > 0

\* Lines 160, 168, 173, 178: new this.runner(js), then a handler subscribed on
\* each of the new runner's stdOut$, waitingForInput$ and running$.
construct(s) ==
    [s EXCEPT !.runners = Append(@, [wired |-> {"stdOut", "waitingForInput", "running"},
                                     destroyed |-> 0]),
              !._runner = Len(s.runners) + 1,
              !.log = Append(@, [t |-> "new", r |-> Len(s.runners) + 1, v |-> <<0>>])]

\* Line 183: this._runner.run().subscribe(...)
start(s, runRaises) ==
    IF runRaises THEN [s EXCEPT !.raised = TRUE]
    ELSE [s EXCEPT !.runners[s._runner].wired = @ \cup {"events"}]

\* The try block (lines 116-216).  env says what the collaborators do:
\* destroy() during the first reset, the runner's constructor, its run().
launch(s, b, env) ==
    bind(reset(s, TRUE, env.destroy1),
         LAMBDA s1 :
            IF s1.raised THEN s1
            ELSE IF fatal(b) THEN [s1 EXCEPT !.raised = TRUE]
            ELSE bind(IF Len(b.errors) > 0 THEN printErrors(s1, b) ELSE s1,
                      LAMBDA s2 :
                         IF env.newRaises THEN [s2 EXCEPT !.raised = TRUE]
                         ELSE bind(construct(s2), LAMBDA s3 : start(s3, env.runRaises))))

\* The catch block (lines 217-226).
failure(s, b, env) ==
    bind(reset([s EXCEPT !.raised = FALSE,
                         !.stdOut = @ \o FailureLine,
                         !.log = @ \o <<[t |-> "catch", r |-> 0, v |-> <<0>>],
                                        [t |-> "stdOut$", r |-> 0,
                                         v |-> <<s.stdOut \o FailureLine>>]>>],
               FALSE, env.destroy2),
         LAMBDA s1 :
            IF s1.raised THEN s1
            ELSE note(s1, "events", 0, [type |-> "parseError", errors |-> b.parseErrors]))

runTranspiled(s, b, env) ==
    bind(launch(s, b, env),
         LAMBDA s1 : IF s1.raised THEN failure(s1, b, env) ELSE s1)

----------------------------------------------------------------------------
(* The handlers subscribed on a runner's streams (lines 168-216) *)

onStdOut(s, data) ==
    [s EXCEPT !.stdOut = @ \o data,
              !.log = Append(@, [t |-> "stdOut$", r |-> 0, v |-> <<data>>])]

onWaitingForInput(s, data) ==
    [s EXCEPT !.waitingForInput = data,
              !.log = Append(@, [t |-> "waitingForInput$", r |-> 0, v |-> <<data>>])]

onRunning(s, data) ==
    [s EXCEPT !.running = data,
              !.log = Append(@, [t |-> "running$", r |-> 0, v |-> <<data>>])]

\* onEvent, had clear kept the echo of the line being typed.
onEventKeepEcho(s, event) ==
    bind(IF event.type = "finish"
         THEN bind(s.stdOut \o FinishLine(event.time),
                   LAMBDA out : note([s EXCEPT !.stdOut = out], "stdOut$", 0, out))
         ELSE IF event.type = "clear"
         THEN note([s EXCEPT !.stdOut = s.stdInBuffer], "stdOut$", 0, s.stdInBuffer)
         ELSE IF event.type = "error"
         THEN bind(s.stdOut \o RuntimeErrorLine(event.error.message),
                   LAMBDA out : note([s EXCEPT !.stdOut = out], "stdOut$", 0, out))
         ELSE s,
         LAMBDA s1 : note(s1, "events", 0, event))

\* onEvent, had the default branch of the switch returned from the handler.
onEventKnownOnly(s, event) ==
    IF event.type = "finish"
    THEN bind(s.stdOut \o FinishLine(event.time),
              LAMBDA out : note(note([s EXCEPT !.stdOut = out], "stdOut$", 0, out),
                                "events", 0, event))
    ELSE IF event.type = "clear"
    THEN note(note([s EXCEPT !.stdOut = <<>>], "stdOut$", 0, <<>>), "events", 0, event)
    ELSE IF event.type = "error"
    THEN bind(s.stdOut \o RuntimeErrorLine(event.error.message),
              LAMBDA out : note(note([s EXCEPT !.stdOut = out], "stdOut$", 0, out),
                                "events", 0, event))
    ELSE s

onEvent(s, event) ==
    bind(IF event.type = "finish"
         THEN bind(s.stdOut \o FinishLine(event.time),
                   LAMBDA out : note([s EXCEPT !.stdOut = out], "stdOut$", 0, out))
         ELSE IF event.type = "clear"
         THEN note([s EXCEPT !.stdOut = <<>>], "stdOut$", 0, <<>>)
         ELSE IF event.type = "error"
         THEN bind(s.stdOut \o RuntimeErrorLine(event.error.message),
                   LAMBDA out : note([s EXCEPT !.stdOut = out], "stdOut$", 0, out))
         ELSE s,
         LAMBDA s1 : note(s1, "events", 0, event))

handle(s, k, data) ==
    IF k = "stdOut" THEN onStdOut(s, data)
    ELSE IF k = "waitingForInput" THEN onWaitingForInput(s, data)
    ELSE IF k = "running" THEN onRunning(s, data)
    ELSE onEvent(s, data)

\* listeners, had the handlers been subscribed on Subjects that all runners share.
listenersShared(rs, r, k) == Cardinality({q \in DOMAIN rs : k \in rs[q].wired})

\* How many handlers of the orchestrator a value on stream k of runner r
\* reaches: each runner has Subjects of its own, and the orchestrator
\* subscribes once on each.
listeners(rs, r, k) == IF k \in rs[r].wired THEN 1 ELSE 0

RECURSIVE deliver(_, _, _, _)
deliver(s, k, data, n) ==
    IF n = 0 THEN s
    ELSE bind(handle(s, k, data), LAMBDA s1 : deliver(s1, k, data, n - 1))

----------------------------------------------------------------------------
(* Operations *)

\* The record of an input line: the keystrokes sent since the previous
\* carriage return, stdOut before the first of them, whether only keystrokes
\* wrote to stdOut since, and whether the carriage return has closed the line.
Off == [recording |-> FALSE, keys |-> <<>>, before |-> <<>>, alone |-> TRUE, closed |-> FALSE]
Fresh(text) == [recording |-> TRUE, keys |-> <<>>, before |-> text, alone |-> TRUE, closed |-> FALSE]
Open == IF line.recording /\ line.closed THEN Fresh(stdOut) ELSE line

\* The record after the keystroke data, and after another operation that ended in s.
Typed(data) ==
    IF ~line.recording THEN line
    ELSE IF data = CR THEN [Open EXCEPT !.closed = TRUE]
    ELSE [Open EXCEPT !.keys = Append(@, data)]
Aside(s) ==
    IF ~line.recording THEN line
    ELSE [Open EXCEPT !.alone = @ /\ s.stdOut = stdOut /\ Entries(s.log, "stdOut$") = {}]

Values(k) ==
    IF k = "stdOut" THEN Chunks ELSE IF k = "events" THEN Events ELSE BOOLEAN

\* Whether handling a value appends to the transcript.
Appends(k, data) ==
    \/ k = "stdOut"
    \/ k = "events" /\ data.type \in {"finish", "error"}

Assign(s) ==
    /\ stdInBuffer' = s.stdInBuffer
    /\ stdOut' = s.stdOut
    /\ waitingForInput' = s.waitingForInput
    /\ running' = s.running
    /\ _runner' = s._runner
    /\ runners' = s.runners

Init ==
    /\ stdInBuffer = <<>>
    /\ stdOut = <<>>
    /\ waitingForInput = FALSE
    /\ running = FALSE
    /\ _runner = 0
    /\ runners = <<>>
    /\ last = [kind |-> "new", runner |-> 0, data |-> <<>>, log |-> <<>>, raised |-> FALSE]
    /\ line = Off

\* The host sends one keystroke: this.stdIn.next(data)
stdIn(data) ==
    /\ data \in Chars => Len(stdInBuffer) < MaxBuf /\ Len(stdOut) < MaxOut
    /\ data = CR => Len(stdOut) < MaxOut
    /\ (line.recording /\ data # CR) => Len(Open.keys) < MaxKeys
    /\ \E s \in {stdInHandler(Cur, data)} :
          Assign(s) /\ last' = Did("stdIn", 0, data, s) /\ line' = Typed(data)

\* stop() (lines 229-231)
stop(destroyRaises) ==
    /\ destroyRaises => _runner # 0
    /\ \E s \in {reset(Cur, TRUE, destroyRaises)} :
          Assign(s) /\ last' = Did("stop", 0, destroyRaises, s) /\ line' = Aside(s)

\* What the collaborators can do during runTranspiled(b) in the current state;
\* a step that is not reached has no outcome to vary.
EnvironmentsOf(b) ==
    {env \in Environments :
        LET reached == ~env.destroy1 /\ ~fatal(b)
            built == reached /\ ~env.newRaises
            caught == env.destroy1 \/ fatal(b) \/ env.newRaises \/ env.runRaises
        IN  /\ env.destroy1 => _runner # 0
            /\ env.newRaises => reached
            /\ env.runRaises => built
            /\ env.destroy2 => caught /\ (_runner # 0 \/ built)
            /\ built => Len(runners) < MaxRunners}

\* Line 88: runTranspiled on each bundle handed over, in order.
RECURSIVE runEach(_, _, _)
runEach(s, bs, env) ==
    IF bs = <<>> THEN s
    ELSE bind(runTranspiled(s, Head(bs), env), LAMBDA s1 : runEach(s1, Tail(bs), env))

\* run(code) (lines 52-99), with what each collaborator does during the call.
run(p) ==
    \E bs \in {handed(p.code, p.parse, p.check, p.gen, clock(p.tick))} :
    \E env \in IF bs = <<>> THEN {Calm} ELSE EnvironmentsOf(bs[1]) :
    \E s \in {runEach(Cur, bs, env)} :
        /\ Assign(s)
        /\ last' = Did("run", IF Len(s.runners) > Len(runners) THEN s._runner ELSE 0,
                       [handed |-> bs, env |-> env, in |-> p], s)
        /\ line' = Aside(s)

\* Stream k of runner r emits data.
emit(r, k, data) ==
    /\ listeners(runners, r, k) > 0
    /\ Appends(k, data) => Len(stdOut) < MaxOut
    /\ \E s \in {deliver(Cur, k, data, listeners(runners, r, k))} :
          Assign(s) /\ last' = Did(k, r, data, s) /\ line' = Aside(s)

Next ==
    \/ \E data \in Keys : stdIn(data)
    \/ \E d \in BOOLEAN : stop(d)
    \/ \E p \in Programs : run(p)
    \/ \E r \in DOMAIN runners, k \in Links : \E data \in Values(k) : emit(r, k, data)

Spec == Init /\ [][Next]_vars

\* The host only starts and stops programs, and the collaborators do whatever
\* they can do.
NextRun ==
    \/ \E d \in BOOLEAN : stop(d)
    \/ \E p \in Pipelines : run(p)

SpecRun == Init /\ [][NextRun]_vars

\* The host types while programs are started and stopped and their runners
\* write output, with the input lines recorded.
NextKeys ==
    \/ \E data \in Keys : stdIn(data)
    \/ stop(FALSE)
    \/ \E p \in Programs : run(p)
    \/ \E r \in DOMAIN runners : \E data \in Chunks : emit(r, "stdOut", data)

InitKeys ==
    /\ stdInBuffer = <<>>
    /\ stdOut = <<>>
    /\ waitingForInput = FALSE
    /\ running = FALSE
    /\ _runner = 0
    /\ runners = <<>>
    /\ last = [kind |-> "new", runner |-> 0, data |-> <<>>, log |-> <<>>, raised |-> FALSE]
    /\ line = Fresh(<<>>)

SpecKeys == InitKeys /\ [][NextKeys]_vars

----------------------------------------------------------------------------
(* Properties *)

EndsWith(s, e) == Len(s) >= Len(e) /\ SubSeq(s, Len(s) - Len(e) + 1, Len(s)) = e

\* The runners on which destroy() was never invoked, and those with a handler
\* of the orchestrator still subscribed.
Live == {r \in DOMAIN runners : runners[r].destroyed = 0}
Wired == {r \in DOMAIN runners : runners[r].wired # {}}

\* Runner r was launched right after runner r - 1, with no stop() and no failed
\* launch between the two: destroy() was invoked on runner r - 1 once only, by
\* the reset that opened the launch of r.
SecondOfTwo(r) == r > 1 /\ runners[r - 1].destroyed = 1

\* C1: when two successive run() calls both launch a runner with no stop() in
\* between, every output chunk of the second runner is appended to stdOut
\* exactly once and makes exactly one emission on stdOut$.
C1_OnceOnly ==
    [][(last'.kind = "stdOut" /\ SecondOfTwo(last'.runner))
          => /\ stdOut' = stdOut \o last'.data[1]
             /\ Cardinality(Entries(last'.log, "stdOut$")) = 1
             /\ Len(last'.log) = 1]_vars

C1_Witness ==
    /\ last.kind = "stdOut" /\ SecondOfTwo(last.runner)
    /\ "stdOut" \in runners[last.runner - 1].wired
    /\ Cardinality(Entries(last.log, "stdOut$")) = 1

\* C2: once a reset has run for a runner (stop(), the reset opening a launch,
\* the reset of the catch block), nothing that runner delivers afterwards
\* changes stdOut, waitingForInput or running, or is emitted on a public
\* stream.  reset() invokes destroy() on the runner after its unsubscribe
\* statements, so destroyed > 0 says they were executed.
C2_StopsListening ==
    [][(last'.kind \in Links /\ runners[last'.runner].destroyed > 0)
          => /\ UNCHANGED <<stdOut, waitingForInput, running>>
             /\ last'.log = <<>>]_vars

\* C3: at most one runner is live, at most one runner has handlers wired, and
\* a runner is not constructed while handlers on an earlier runner are wired.
C3_OneRunner ==
    /\ Cardinality(Live) <= 1
    /\ Cardinality(Wired) <= 1
    /\ (last.kind = "run" /\ last.runner # 0) => Wired \subseteq {last.runner}

\* The runners one run() constructed.
Built == Cardinality(Entries(last.log, "new"))
Failed == Entries(last.log, "catch") # {}
Bundle == last.data[1].handed[1]

\* C4: runTranspiled constructs no runner when parseErrors is non-empty, and
\* exactly one when it is empty, whatever errors holds.
C4_BySyntaxOnly ==
    last.kind = "run" => Built = IF Len(Bundle.parseErrors) > 0 THEN 0 ELSE 1

\* C4, amended: no runner when parseErrors is non-empty; otherwise one, unless
\* destroy() raises in the first reset or the constructor raises, and then
\* none.  errors has no part in it.
C4_BySyntaxAndRaises ==
    last.kind = "run" =>
        Built = IF Len(Bundle.parseErrors) > 0 THEN 0
                ELSE IF last.data[1].env.destroy1 \/ last.data[1].env.newRaises THEN 0
                ELSE 1

C4_Witness ==
    /\ last.kind = "run" /\ Built = 1
    /\ Bundle.parseErrors = <<>> /\ Len(Bundle.errors) = 2

\* C5: a launch that enters the catch block emits exactly one parseError
\* event, carrying the bundle's parseErrors, after the failure line was
\* emitted and after reset(false) returned, stdOut ending with the failure
\* line; a launch that does not enter it emits no parseError event.
C5_OneParseError ==
    last.kind = "run" =>
        LET l == last.log
            pe == {i \in Entries(l, "events") : l[i].v[1].type = "parseError"}
        IN  IF Failed
            THEN /\ Cardinality(pe) = 1
                 /\ \A i \in pe :
                       /\ l[i].v[1].errors = Bundle.parseErrors
                       /\ \E j \in Entries(l, "stdOut$"), k \in Entries(l, "reset") :
                             /\ j < k /\ k < i
                             /\ EndsWith(l[j].v[1], FailureLine)
                             /\ l[k].v = <<FALSE>>
                 /\ EndsWith(stdOut, FailureLine)
            ELSE pe = {}

\* C6: run() and stop() never raise to their caller, and a launch that fails
\* leaves the failure line in stdOut or a parseError event.
C6_NeverRaises ==
    last.kind \in {"run", "stop"} =>
        /\ ~last.raised
        /\ (last.kind = "run" /\ Failed) =>
              \/ EndsWith(stdOut, FailureLine)
              \/ Entries(last.log, "events") # {}

\* C7: every reset leaves waitingForInput and running false and emits false
\* on waitingForInput$ and on running$.
C7_EmitsFalse ==
    Entries(last.log, "reset") # {} =>
        /\ ~waitingForInput /\ ~running
        /\ \E i \in Entries(last.log, "waitingForInput$") : last.log[i].v = <<FALSE>>
        /\ \E i \in Entries(last.log, "running$") : last.log[i].v = <<FALSE>>

\* C8: once a reset has run for the latest runner and until a launch
\* constructs another, a carriage return submits nothing to any runner, clears
\* stdInBuffer and appends one newline.
C8_CommitDropped ==
    [][(/\ last'.kind = "stdIn" /\ last'.data = <<CR>>
        /\ runners # <<>> /\ runners[Len(runners)].destroyed > 0)
          => /\ Entries(last'.log, "stdIn") = {}
             /\ stdInBuffer' = <<>>
             /\ stdOut' = stdOut \o <<NL>>]_vars

\* C9: each run(code) hands exactly one bundle to runTranspiled, whichever of
\* the parser, the checker and the generator raises; what was computed before
\* the raise is in the bundle, and what was not is empty.
C9_OneBundle ==
    last.kind = "run" =>
        LET in == last.data[1].in
            checked == ~in.parse.raises /\ ~in.check.raises
        IN  /\ Len(last.data[1].handed) = 1
            /\ Bundle.code = in.code
            /\ Bundle.parseErrors = in.parse.reported
            /\ Bundle.errors = IF checked THEN in.check.returns ELSE <<>>
            /\ Bundle.js = IF checked /\ ~in.gen.raises THEN in.gen.returns ELSE ""

C9_Witness ==
    /\ last.kind = "run" /\ Len(last.data[1].handed) = 1
    /\ last.data[1].in.gen.raises
    /\ Bundle.errors = <<D1, D2>> /\ Bundle.js = ""

\* C10: every timing of the bundle is the end of its phase minus its start,
\* hence not negative, and zero for a phase that did not run, also when a
\* phase raises after its start was read.
C10_Timings ==
    last.kind = "run" =>
        LET in == last.data[1].in
            t == clock(in.tick)
            ms == Bundle.times
        IN  /\ ms.parse >= 0 /\ ms.check >= 0 /\ ms.transpile >= 0
            /\ ~in.parse.raises => ms.parse = t[2] - t[1]
            /\ in.parse.raises => ms.check = 0
            /\ (in.parse.raises \/ in.check.raises) => ms.transpile = 0

\* How many units of text s are u.
Count(s, u) == Cardinality({i \in DOMAIN s : s[i] = u})

\* The first value the last operation emitted on stdOut$.
FirstOut ==
    LET e == Entries(last.log, "stdOut$")
    IN  CHOOSE i \in e : \A j \in e : i <= j

C12_StopClears ==
    (last.kind = "stop" /\ ~last.raised) => stdOut = <<>> /\ stdInBuffer = <<>>

\* The text a sequence of keystrokes leaves on an empty line: a character is
\* appended, a backspace drops the last character, or nothing of an empty text.
RECURSIVE fold(_)
fold(typed) ==
    IF typed = <<>> THEN <<>>
    ELSE LET sofar == fold(SubSeq(typed, 1, Len(typed) - 1))
             key == typed[Len(typed)]
         IN  IF key # BS THEN Append(sofar, key)
             ELSE IF sofar = <<>> THEN sofar
             ELSE SubSeq(sofar, 1, Len(sofar) - 1)

\* The runner that this._runner refers to has not been destroyed.
Active == _runner # 0 /\ runners[_runner].destroyed = 0

\* The lines the last operation submitted to a runner's stdIn, as log entries.
Submitted == Entries(last.log, "stdIn")

\* C13: with an active runner, the line a carriage return submits is the fold
\* of the keystrokes sent since the previous carriage return, and, when only
\* keystrokes wrote to stdOut meanwhile, stdOut is what it was before them
\* followed by that text and one newline.
C13_Fold ==
    (last.kind = "stdIn" /\ last.data = <<CR>> /\ line.recording /\ Active)
    => /\ Cardinality(Submitted) = 1
       /\ \A i \in Submitted :
             last.log[i].r = _runner /\ last.log[i].v = <<fold(line.keys)>>
       /\ stdInBuffer = <<>>
       /\ line.alone => stdOut = line.before \o fold(line.keys) \o <<NL>>

C13_Witness ==
    /\ last.kind = "stdIn" /\ last.data = <<CR>> /\ Active
    /\ line.recording /\ line.alone /\ line.keys = <<"5", BS, "6">>
    /\ \E i \in Submitted : last.log[i].v = <<(<<"6">>)>>
    /\ stdOut = <<"6", NL>>

\* C14: a backspace received while stdInBuffer is empty changes neither
\* stdInBuffer nor stdOut, whatever stdOut holds, and raises nothing.
C14_BackspaceOnEmpty ==
    [][(last'.kind = "stdIn" /\ last'.data = <<BS>> /\ stdInBuffer = <<>>)
          => /\ stdInBuffer' = <<>> /\ stdOut' = stdOut
             /\ ~last'.raised
             /\ Entries(last'.log, "stdIn") = {}]_vars

\* A backspace was the first keystroke of a line, below the listing of the
\* errors of a program.
C14_Witness ==
    /\ last.kind = "stdIn" /\ last.data = <<BS>> /\ line.keys = <<BS>>
    /\ stdInBuffer = <<>>
    /\ EndsWith(stdOut, StartMarker)

\* C15: in every state a carriage return leaves stdInBuffer empty and stdOut
\* as it was followed by one newline, and with an active runner submits what
\* stdInBuffer held to that runner's stdIn exactly once.
C15_CarriageReturn ==
    [][(last'.kind = "stdIn" /\ last'.data = <<CR>>)
          => /\ stdInBuffer' = <<>>
             /\ stdOut' = stdOut \o <<NL>>
             /\ Active => /\ Cardinality(Entries(last'.log, "stdIn")) = 1
                          /\ \A i \in Entries(last'.log, "stdIn") :
                                /\ last'.log[i].r = _runner
                                /\ last'.log[i].v = <<stdInBuffer>>]_vars

C15_Witness ==
    /\ last.kind = "stdIn" /\ last.data = <<CR>> /\ Active
    /\ stdInBuffer = <<>> /\ stdOut = <<"5", NL>>
    /\ \E i \in Submitted : last.log[i].v = <<(<<"5">>)>>

\* C16: every event the active runner emits, of any kind, is forwarded once
\* and unchanged on the public events stream, as the last thing its handling
\* does: after the event's effect on stdOut and the emission of stdOut.
C16_Forwarded ==
    [][(last'.kind = "events" /\ Active /\ last'.runner = _runner)
          => LET l == last'.log
                 event == last'.data[1]
                 writes == event.type \in {"finish", "clear", "error"}
             IN  /\ Entries(l, "events") = {Len(l)}
                 /\ l[Len(l)].v = <<event>>
                 /\ Len(l) = IF writes THEN 2 ELSE 1
                 /\ writes => l[1].t = "stdOut$" /\ l[1].v = <<stdOut'>>
                 /\ ~writes => stdOut' = stdOut]_vars

C16_Witness ==
    /\ last.kind = "events" /\ Active /\ last.runner = _runner
    /\ last.data[1].type = "other"
    /\ Len(last.log) = 1 /\ last.log[1].t = "events" /\ last.log[1].v = last.data

\* C17: a clear event of the active runner leaves stdOut empty, whatever it
\* held, and emits the empty stdOut on stdOut$.
C17_Clear ==
    [][(last'.kind = "events" /\ last'.data[1].type = "clear"
        /\ Active /\ last'.runner = _runner)
          => /\ stdOut' = <<>>
             /\ Cardinality(Entries(last'.log, "stdOut$")) = 1
             /\ \A i \in Entries(last'.log, "stdOut$") : last'.log[i].v = <<(<<>>)>>]_vars

\* The clear came while typed characters were waiting for their carriage return.
C17_Witness ==
    /\ last.kind = "events" /\ last.data[1].type = "clear"
    /\ Active /\ last.runner = _runner
    /\ stdOut = <<>> /\ stdInBuffer # <<>>

\* The last value the last operation emitted on stdOut$.
LastOut ==
    LET e == Entries(last.log, "stdOut$")
    IN  CHOOSE i \in e : \A j \in e : j <= i

\* C18: what an operation emits on stdOut$ is the whole stdOut, for a
\* keystroke, for the listing of errors, for an event and for a chunk of
\* runner output alike, so the last value emitted is stdOut after the operation.
C18_EmitsTranscript ==
    Entries(last.log, "stdOut$") # {} => last.log[LastOut].v = <<stdOut>>

\* C19: over any sequence of run(), stop() and failed launches, destroy() is
\* invoked at most once on each runner constructed.
C19_DestroyOnce ==
    \A r \in DOMAIN runners : runners[r].destroyed <= 1

\* C20: whenever stdInBuffer is not empty it is a suffix of stdOut, under any
\* interleaving of keystrokes with runner output, events, run() and stop().
C20_BufferIsSuffix ==
    stdInBuffer # <<>> => EndsWith(stdOut, stdInBuffer)

====
